---- MODULE Spec2Model ----
(***************************************************************************)
(* A model of the Crypto-API bot wrapper: the message facade (Callback),   *)
(* the command router (Session.bind / Callback.reduce), and the user store *)
(* (Database).  Python strings are modelled as sequences of one-character  *)
(* strings, and Python values whose type the code tests (list / str) carry *)
(* a type tag.                                                             *)
(***************************************************************************)
EXTENDS Integers, Sequences, FiniteSets, TLC

VARIABLES
    cmd_call,        \* arguments of the Callback.command call under study
    cmd_ret,         \* what that call returned (Pending before the call)
    bind_function,   \* Session._bind_function: the handler entries, in order
    cb,              \* the Callback built for the inbound message
    pc,              \* position of Callback.reduce: "idle", "scan", "done"
    func_list,       \* the list reduce iterates
    target,          \* what reduce hands to the handlers as msg_obj
    idx,             \* index in func_list of the next entry reduce looks at
    trace,           \* the handler attempts of this reduce, in order
    result,          \* what reduce returned or raised ("none" while running)
    last_init,       \* the last Callback construction: the variant it was given
                     \* and how it ended
    table,           \* the rows of channel_table, group_table and c2c_table
    auto_increment,  \* the next AUTO_INCREMENT userid of each table
    pending,         \* the connection holds changes that are not committed
    prev_call,       \* the call before the last, when the last repeats it
                     \* (same operation, same Callback); NoCall otherwise
    last_call,       \* the last store call: arguments and what came back
    last_send,       \* the last send operation: arguments, outcome and the
                     \* transport calls it made
    other_bind,      \* _bind_function of the two sessions beside the main one
    last_fusion      \* the last Session.fusion call: arguments and return

commandVars == <<cmd_call, cmd_ret>>
routerVars == <<bind_function, cb, pc, func_list, target, idx, trace, result, last_init>>
storeVars == <<table, auto_increment, pending, prev_call, last_call>>
sendVars == <<last_send>>
fusionVars == <<other_bind, last_fusion>>
vars == <<cmd_call, cmd_ret, bind_function, cb, pc, func_list, target, idx, trace, result,
          last_init,
          table, auto_increment, pending, prev_call, last_call, last_send,
          other_bind, last_fusion>>

-----------------------------------------------------------------------------
(* Bounds *)

\* longest generated message content, in characters
MaxLen == 3
\* most handler entries bound to the session
MaxHandlers == 2

-----------------------------------------------------------------------------
(* Python strings *)

Alphabet == {"/", " ", "a"}

RECURSIVE StringsUpTo(_)
StringsUpTo(n) ==
    IF n = 0 THEN {<<>>}
    ELSE LET shorter == StringsUpTo(n - 1)
         IN  shorter \cup {Append(s, c) : s \in {t \in shorter : Len(t) = n - 1}, c \in Alphabet}

IsSpace(c) == c = " "

RECURSIVE lstrip(_)
lstrip(s) ==
    IF s = <<>> THEN s
    ELSE IF IsSpace(Head(s)) THEN lstrip(Tail(s)) ELSE s

RECURSIVE rstrip(_)
rstrip(s) ==
    IF s = <<>> THEN s
    ELSE IF IsSpace(s[Len(s)]) THEN rstrip(SubSeq(s, 1, Len(s) - 1)) ELSE s

\* str.strip()
strip(s) == rstrip(lstrip(s))

\* str.startswith(p)
startswith(s, p) == Len(p) <= Len(s) /\ SubSeq(s, 1, Len(p)) = p

\* s[n:]
SliceFrom(s, n) == SubSeq(s, n + 1, Len(s))

\* length of the leading run of non-whitespace characters
RECURSIVE WordLen(_)
WordLen(s) ==
    IF s = <<>> \/ IsSpace(Head(s)) THEN 0 ELSE 1 + WordLen(Tail(s))

\* str.split() with no separator: the whitespace-separated words
RECURSIVE split(_)
split(s) ==
    LET t == lstrip(s)
    IN  IF t = <<>> THEN <<>>
        ELSE <<SubSeq(t, 1, WordLen(t))>> \o split(SliceFrom(t, WordLen(t)))

\* tagged Python values
PyList(v) == [type |-> "list", val |-> v]
PyStr(v)  == [type |-> "str", val |-> v]
\* no value yet: the call has not returned
Pending == [type |-> "pending", val |-> <<>>]

-----------------------------------------------------------------------------
(* Callback.command *)

\* a variant that also drops the command word from the split result
command_drop_first(content, prefix, sep_params) ==
    LET message == strip(content)
    IN  IF startswith(message, prefix) /\ sep_params
        THEN LET words == split(strip(SliceFrom(message, Len(prefix))))
             IN  PyList(IF words = <<>> THEN words ELSE Tail(words))
        ELSE PyStr(message)

command(content, prefix, sep_params) ==
    LET message == strip(content)
    IN  IF startswith(message, prefix) /\ sep_params
        THEN PyList(split(strip(SliceFrom(message, Len(prefix)))))
        ELSE PyStr(message)

\* literal strings used by the examples
Slash == <<"/">>
Echo  == <<"e", "c", "h", "o">>
Hello == <<"h", "e", "l", "l", "o">>
World == <<"w", "o", "r", "l", "d">>
EchoHelloWorld == Slash \o Echo \o <<" ">> \o Hello \o <<" ">> \o World


-----------------------------------------------------------------------------
(* Callback construction *)

\* a variant of the tag table with the group and direct tags exchanged
TYPE_exchanged(variant) ==
    CASE variant = "Message" -> "channel"
      [] variant = "GroupMessage" -> "c2c"
      [] variant = "C2CMessage" -> "group"

\* the audience tag of each message variant
TYPE(variant) ==
    CASE variant = "Message" -> "channel"
      [] variant = "GroupMessage" -> "group"
      [] variant = "C2CMessage" -> "c2c"

Variants == {"Message", "GroupMessage", "C2CMessage"}

\* Callback(msg_obj): the facade around one message object
Callback(msg_obj) ==
    [kind |-> "Callback", msg_type |-> TYPE(msg_obj.variant), msg_obj |-> msg_obj]

\* Python's None
None == "<None>"

\* a message object: its variant, its content, the sender's open-id (author.id,
\* author.member_openid or author.user_openid, by variant) and the context id
\* (channel_id or group_openid; a direct message has none); id is the message id
Msg(variant, content, author, ctx) ==
    [variant |-> variant, content |-> content, author |-> author, ctx |-> ctx,
     id |-> "m1"]

NoMessage == Msg("none", <<>>, None, None)
\* no Callback exists yet
NoCallback == [kind |-> "None", msg_type |-> "none", msg_obj |-> NoMessage]
\* some object that is not a Callback
NotACallback == [kind |-> "object", msg_type |-> "none", msg_obj |-> NoMessage]

\* objects that are instances of none of the three message classes
OtherVariants == {"DirectMessage", "dict"}

\* Callback.__init__(msg_obj): the isinstance check, then the fields; status
\* is "ok" or the error raised, callback the object built (NoCallback if none)
init(msg_obj) ==
    IF msg_obj.variant \notin Variants
    THEN [status |-> "ContentTypeError", callback |-> NoCallback]
    ELSE [status |-> "ok", callback |-> Callback(msg_obj)]

\* no construction was attempted yet
NoInit == [variant |-> "none", status |-> "none"]

-----------------------------------------------------------------------------
(* Session.bind and the handler entry it registers *)

Ping   == <<"p", "i", "n", "g">>
Pong   == <<"p", "o", "n", "g">>
SlashPi == <<"/", "p", "i">>
P      == <<"p">>
DefaultPrefixes == <<Slash, <<>>>>

\* what a user function does when called
UserFuncs == {"True", "None"}
\* a variant that takes every outcome but False for success
Truthy_not_false(v) == v # "False"

\* Python truthiness of an outcome
Truthy(v) == v = "True"

\* the entry bind(*commands, prefixes, limitation)(func) appends
Handler(commands, prefixes, limitation, func) ==
    [callable |-> TRUE, commands |-> commands, prefixes |-> prefixes,
     limitation |-> limitation, func |-> func]

\* a list element that is not callable
NonCallable ==
    [callable |-> FALSE, commands |-> <<>>, prefixes |-> <<>>,
     limitation |-> <<>>, func |-> "None"]

\* what one invocation of a handler entry did: its outcome ("True", "False",
\* "None", or "raise" with the error kind) and the params of every call of the
\* user function
Attempt(outcome, error, calls) ==
    [outcome |-> outcome, error |-> error, calls |-> calls]

\* a variant that runs commands in the outer loop and prefixes in the inner
RECURSIVE scan_command_major(_, _, _)
scan_command_major(h, content, k) ==
    LET nc == Len(h.commands)
        np == Len(h.prefixes)
    IN  IF np = 0 \/ k > np * nc THEN Attempt("False", "", <<>>)
        ELSE LET prefix == h.prefixes[((k - 1) % np) + 1]
                 cmdname == h.commands[((k - 1) \div np) + 1]
                 cmd == command(content, prefix \o cmdname, TRUE)
             IN  IF cmd.type = "list"
                 THEN Attempt(h.func, "",
                              <<IF cmd.val = <<>> THEN PyStr(<<>>) ELSE cmd>>)
                 ELSE scan_command_major(h, content, k + 1)

\* the prefix x command scan of the wrapper from pair number k on, pairs
\* numbered prefix-major: prefixes in the outer loop, commands in the inner
RECURSIVE scan(_, _, _)
scan(h, content, k) ==
    LET nc == Len(h.commands)
        np == Len(h.prefixes)
    IN  IF nc = 0 \/ k > np * nc THEN Attempt("False", "", <<>>)
        ELSE LET prefix == h.prefixes[((k - 1) \div nc) + 1]
                 cmdname == h.commands[((k - 1) % nc) + 1]
                 cmd == command(content, prefix \o cmdname, TRUE)
             IN  IF cmd.type = "list"
                 THEN Attempt(h.func, "",
                              <<IF cmd.val = <<>> THEN PyStr(<<>>) ELSE cmd>>)
                 ELSE scan(h, content, k + 1)

\* a variant that ignores the limitation list
wrapper_unrestricted(h, callback) ==
    IF callback.kind = "None" THEN Attempt("raise", "BindCommandError", <<>>)
    ELSE IF callback.kind # "Callback" THEN Attempt("raise", "BindCommandError", <<>>)
    ELSE scan(h, callback.msg_obj.content, 1)

\* wrapper(msg_obj=callback): one invocation of a handler entry
wrapper(h, callback) ==
    IF callback.kind = "None" THEN Attempt("raise", "BindCommandError", <<>>)
    ELSE IF callback.kind # "Callback" THEN Attempt("raise", "BindCommandError", <<>>)
    ELSE IF \E n \in 1..Len(h.limitation) : h.limitation[n] = callback.msg_type
    THEN Attempt("False", "", <<>>)
    ELSE scan(h, callback.msg_obj.content, 1)

-----------------------------------------------------------------------------
(* The router: Session.bind, Callback.__init__, Callback.reduce *)

\* the (commands, prefixes) arguments of the bind calls
BindArgs ==
    { [commands |-> <<Ping>>, prefixes |-> DefaultPrefixes],
      [commands |-> <<Pong>>, prefixes |-> <<Slash>>],
      [commands |-> <<SlashPi, P>>, prefixes |-> DefaultPrefixes] }
BindLimitations == {<<>>, <<"group">>}

RouterContents ==
    { Slash \o Ping, Ping, Slash \o Pong \o <<" ", "x">>, Hello }

RouterMessages == {Msg(v, c, "u1", None) : v \in Variants, c \in RouterContents}
\* inbound objects a Callback cannot wrap
OtherMessages == {Msg(v, Ping, "u1", None) : v \in OtherVariants}

RECURSIVE Reverse(_)
Reverse(s) == IF s = <<>> THEN <<>> ELSE Append(Reverse(Tail(s)), Head(s))

CommandIdle ==
    /\ cmd_call = [content |-> <<>>, prefix |-> <<>>, sep_params |-> TRUE]
    /\ cmd_ret = Pending

RouterIdle ==
    /\ bind_function = <<>>
    /\ cb = NoCallback
    /\ pc = "idle"
    /\ func_list = <<>>
    /\ target = NoCallback
    /\ idx = 0
    /\ trace = <<>>
    /\ result = "none"
    /\ last_init = NoInit

\* @session.bind(*commands, prefixes=..., limitation=...) on a user function
Bind(commands, prefixes, limitation, func) ==
    /\ pc = "idle"
    /\ cb = NoCallback
    /\ Len(bind_function) < MaxHandlers
    /\ bind_function' = Append(bind_function, Handler(commands, prefixes, limitation, func))
    /\ UNCHANGED <<cb, pc, func_list, target, idx, trace, result, last_init>>

\* Callback(msg_obj) for an inbound message: __init__ raises and no Callback
\* comes to exist, or the Callback is built
NewCallback(msg_obj) ==
    /\ pc = "idle"
    /\ cb = NoCallback
    /\ LET made == init(msg_obj)
       IN  /\ cb' = made.callback
           /\ last_init' = [variant |-> msg_obj.variant, status |-> made.status]
    /\ UNCHANGED <<bind_function, pc, func_list, target, idx, trace, result>>

\* reduce(session, callback) up to the loop: session is the Session, an
\* explicit list, or something else; callback defaults to self
ReduceEnter(session, callback) ==
    /\ pc = "idle"
    /\ cb # NoCallback
    /\ target' = IF callback.kind = "None" THEN cb ELSE callback
    /\ trace' = <<>>
    /\ IF session.kind \in {"Session", "list"}
       THEN /\ func_list' = session.val
            /\ idx' = 1
            /\ pc' = "scan"
            /\ result' = "none"
       ELSE /\ func_list' = <<>>
            /\ idx' = 0
            /\ pc' = "done"
            /\ result' = "TypeError"
    /\ UNCHANGED <<bind_function, cb, last_init>>

\* one iteration of the loop over func_list
ReduceStep ==
    /\ pc = "scan"
    /\ idx <= Len(func_list)
    /\ LET func == func_list[idx]
       IN  IF ~func.callable
           THEN /\ idx' = idx + 1
                /\ UNCHANGED <<pc, trace, result>>
           ELSE LET a == wrapper(func, target)
                IN  /\ trace' = Append(trace, [h |-> idx] @@ a)
                    /\ IF a.outcome = "raise"
                       THEN pc' = "done" /\ result' = a.error /\ idx' = idx
                       ELSE IF Truthy(a.outcome)
                       THEN pc' = "done" /\ result' = "True" /\ idx' = idx
                       ELSE pc' = pc /\ result' = result /\ idx' = idx + 1
    /\ UNCHANGED <<bind_function, cb, func_list, target, last_init>>

\* the loop ran off the end of func_list
ReduceExhausted ==
    /\ pc = "scan"
    /\ idx > Len(func_list)
    /\ pc' = "done"
    /\ result' = "False"
    /\ UNCHANGED <<bind_function, cb, func_list, target, idx, trace, last_init>>

\* the Callback is dropped once the request is over
Discard ==
    /\ pc = "done"
    /\ cb' = NoCallback
    /\ pc' = "idle"
    /\ func_list' = <<>>
    /\ target' = NoCallback
    /\ idx' = 0
    /\ trace' = <<>>
    /\ result' = "none"
    /\ UNCHANGED <<bind_function, last_init>>

\* the session arguments reduce is called with
SessionArgs ==
    { [kind |-> "Session", val |-> bind_function],
      [kind |-> "list", val |-> <<NonCallable>> \o Reverse(bind_function)],
      [kind |-> "other", val |-> <<>>] }


-----------------------------------------------------------------------------
(* Callback.command on its own *)

CommandContents ==
    StringsUpTo(MaxLen) \cup {EchoHelloWorld, Hello, <<" ">> \o EchoHelloWorld \o <<" ">>}
CommandPrefixes == {Slash, <<>>, <<"/", "a">>}

CommandCalls ==
    [content : CommandContents, prefix : CommandPrefixes, sep_params : BOOLEAN]


\* one call of Callback.command on the wrapped message
Command ==
    /\ cmd_ret = Pending
    /\ cmd_ret' = command(cmd_call.content, cmd_call.prefix, cmd_call.sep_params)
    /\ UNCHANGED cmd_call

\* the next inbound message and call arguments
NextCommandCall ==
    /\ cmd_ret # Pending
    /\ cmd_call' \in CommandCalls
    /\ cmd_ret' = Pending


-----------------------------------------------------------------------------
(* The user store: Database *)

Kinds == {"channel", "group", "c2c"}

\* Callback.user_openid
user_openid(callback) == callback.msg_obj.author

\* BaseUser(userid, openid, message_number, channel_id, group_id)
BaseUser(userid, openid, message_number, channel_id, group_id) ==
    [userid |-> userid, openid |-> openid, message_number |-> message_number,
     channel_id |-> channel_id, group_id |-> group_id]

\* BaseUser(**query): the columns of the row, the defaults for the rest
BaseUserFromRow(query) ==
    BaseUser(IF "userid" \in DOMAIN query THEN query.userid ELSE 0,
             IF "openid" \in DOMAIN query THEN query.openid ELSE "",
             IF "message_number" \in DOMAIN query THEN query.message_number ELSE 0,
             IF "channel_id" \in DOMAIN query THEN query.channel_id ELSE None,
             IF "group_id" \in DOMAIN query THEN query.group_id ELSE None)

\* the value an INT column holds after the driver is handed v
SqlInt(v) == IF v = "1" THEN 1 ELSE 0

\* Python truthiness of a context id
TruthyId(v) == v # None /\ v # ""

\* the row INSERT INTO {coc_type}_table (columns) VALUES (values) creates;
\* a column left out of the statement is NULL
NewRow(coc_type, userid, openid, message_number, coc_value) ==
    LET base == [userid |-> userid, openid |-> openid,
                 message_number |-> SqlInt(message_number)]
        extra == IF TruthyId(coc_value) THEN coc_value ELSE None
    IN  CASE coc_type = "channel" -> base @@ [channel_id |-> extra]
          [] coc_type = "group" -> base @@ [group_id |-> extra]
          [] coc_type = "c2c" -> base

\* SELECT * FROM t WHERE column = value (NULL equals nothing)
RECURSIVE Select(_, _, _)
Select(rows, column, value) ==
    IF rows = <<>> THEN <<>>
    ELSE IF value # None /\ Head(rows)[column] = value
         THEN <<Head(rows)>> \o Select(Tail(rows), column, value)
         ELSE Select(Tail(rows), column, value)

\* what a store call gave back: a status ("ok", "RuntimeError", or
\* "DriverError" for the driver's own exception type), the kind of value
\* returned and the snapshots in it
Returned(type, users) == [status |-> "ok", type |-> type, users |-> users]
Raised(status) == [status |-> status, type |-> "error", users |-> <<>>]

\* a variant of get_userinfo that reports every row as absent
get_userinfo_blind(callback, fail) ==
    IF fail = "select" THEN Raised("RuntimeError") ELSE Returned("None", <<>>)

\* get_userinfo(callback); fail names the driver call that fails, if any
get_userinfo(callback, fail) ==
    IF fail = "select" THEN Raised("RuntimeError")
    ELSE LET query == Select(table[callback.msg_type], "openid", user_openid(callback))
         IN  IF query # <<>>
             THEN Returned("BaseUser", <<BaseUserFromRow(Head(query))>>)
             ELSE Returned("None", <<>>)

\* DB_TYPE[type(msg_obj).__name__]: the table and how the context id is read
\* ("notcallable" for the string the C2CMessage entry holds in place of a function)
DB_TYPE(variant) ==
    CASE variant = "Message" -> [coc_type |-> "channel", coc_func |-> "channel_id"]
      [] variant = "GroupMessage" -> [coc_type |-> "group", coc_func |-> "group_openid"]
      [] variant = "C2CMessage" -> [coc_type |-> "c2c", coc_func |-> "notcallable"]

\* the snapshot insert_userinfo returns after inserting: no userid is passed
InsertSnapshot(coc_type, userid, openid, coc_value) ==
    BaseUser(0, openid, 1,
             IF coc_type = "channel" THEN coc_value ELSE None,
             IF coc_type = "group" THEN coc_value ELSE None)

\* the record of a store call
\* the record of a store call: the operation, its Callback, whether the lookup
\* found a row, what came back, how many INSERT statements were executed and
\* whether the driver raised during the call
Call(op, callback, found, ret, inserts, driver_raised) ==
    [op |-> op, cb |-> callback, found |-> found, ret |-> ret,
     inserts |-> inserts, driver_raised |-> driver_raised]

NoCall == Call("none", NoCallback, FALSE, Raised("none"), 0, FALSE)

StoreIdle ==
    /\ table = [k \in Kinds |-> <<>>]
    /\ auto_increment = [k \in Kinds |-> 1]
    /\ pending = FALSE
    /\ prev_call = NoCall
    /\ last_call = NoCall

\* the call is recorded as the last one
Record(call) ==
    /\ prev_call' = IF last_call.op = call.op /\ last_call.cb = call.cb
                    THEN last_call ELSE NoCall
    /\ last_call' = call

\* Database.get_userinfo(callback)
GetUserinfo(callback, fail) ==
    /\ fail \in {"none", "select"}
    /\ LET ret == get_userinfo(callback, fail)
       IN  Record(Call("get_userinfo", callback, ret.type = "BaseUser", ret, 0,
                       fail # "none"))
    /\ UNCHANGED <<table, auto_increment, pending>>

\* Database.insert_userinfo(callback)
InsertUserinfo(callback, fail) ==
    /\ fail \in {"none", "select", "insert", "commit"}
    /\ LET query_user == get_userinfo(callback, fail)
           db == DB_TYPE(callback.msg_obj.variant)
           coc_type == db.coc_type
           coc_value == callback.msg_obj.ctx
           userid == auto_increment[coc_type]
           row == NewRow(coc_type, userid, user_openid(callback), "1", coc_value)
           rec(ret, inserts, raised) ==
               Record(Call("insert_userinfo", callback, query_user.type = "BaseUser",
                           ret, inserts, raised))
       IN  IF query_user.status # "ok"
           THEN /\ rec(query_user, 0, TRUE)
                /\ UNCHANGED <<table, auto_increment, pending>>
           ELSE IF query_user.type = "BaseUser"
           THEN /\ rec(query_user, 0, FALSE)
                /\ UNCHANGED <<table, auto_increment, pending>>
           ELSE IF db.coc_func = "notcallable"
           THEN \* 'None'(msg_obj) raises TypeError inside the try block
                /\ rec(Raised("RuntimeError"), 0, FALSE)
                /\ UNCHANGED <<table, auto_increment, pending>>
           ELSE IF fail = "insert"
           THEN /\ rec(Raised("RuntimeError"), 1, TRUE)
                /\ UNCHANGED <<table, auto_increment, pending>>
           ELSE /\ table' = [table EXCEPT ![coc_type] = Append(@, row)]
                /\ auto_increment' = [auto_increment EXCEPT ![coc_type] = @ + 1]
                /\ IF fail = "commit"
                   THEN /\ pending' = TRUE
                        /\ rec(Raised("RuntimeError"), 1, TRUE)
                   ELSE /\ pending' = FALSE
                        /\ rec(Returned("BaseUser",
                                        <<InsertSnapshot(coc_type, userid,
                                                         user_openid(callback), coc_value)>>),
                               1, FALSE)

\* Database.get_group_use_user(callback): no try block around the driver calls
GetGroupUseUser(callback, fail) ==
    /\ fail \in {"none", "select"}
    /\ IF callback.msg_obj.variant # "GroupMessage"
       THEN Record(Call("get_group_use_user", callback, FALSE,
                        Returned("list", <<>>), 0, FALSE))
       ELSE IF fail = "select"
       THEN Record(Call("get_group_use_user", callback, FALSE,
                        Raised("DriverError"), 0, TRUE))
       ELSE LET rows == Select(table["group"], "group_id", callback.msg_obj.ctx)
            IN  Record(Call("get_group_use_user", callback, rows # <<>>,
                            Returned("list", [n \in 1..Len(rows) |-> BaseUserFromRow(rows[n])]),
                            0, FALSE))
    /\ UNCHANGED <<table, auto_increment, pending>>

\* the tables TRUNCATE reaches before the driver call numbered fail_at fails
\* (1..3: that TRUNCATE, 4: the commit, 0: nothing fails)
TruncateOrder == <<"channel", "group", "c2c">>
Truncated(fail_at) ==
    {TruncateOrder[n] : n \in {m \in 1..3 : fail_at = 0 \/ m < fail_at}}

\* Database.clear_table(); TRUNCATE commits implicitly and resets AUTO_INCREMENT
ClearTable(fail_at) ==
    /\ fail_at \in 0..4
    /\ table' = [k \in Kinds |-> IF k \in Truncated(fail_at) THEN <<>> ELSE table[k]]
    /\ auto_increment' =
           [k \in Kinds |-> IF k \in Truncated(fail_at) THEN 1 ELSE auto_increment[k]]
    /\ pending' = IF Truncated(fail_at) # {} \/ fail_at = 0 THEN FALSE ELSE pending
    /\ Record(Call("clear_table", NoCallback, FALSE,
                   IF fail_at = 0 THEN Returned("None", <<>>) ELSE Raised("RuntimeError"),
                   0, fail_at # 0))

\* the Callbacks the store is called with
StoreAuthors == {"u1", "u2"}
StoreMessages ==
    {Msg("Message", <<>>, a, "ch1") : a \in StoreAuthors}
        \cup {Msg("GroupMessage", <<>>, a, "g1") : a \in StoreAuthors}
        \cup {Msg("GroupMessage", <<>>, "u1", None)}
        \cup {Msg("C2CMessage", <<>>, a, None) : a \in StoreAuthors}
StoreCallbacks == {Callback(m) : m \in StoreMessages}

-----------------------------------------------------------------------------
(* The send operations of Callback *)

\* a str or bytes argument
Str(chars) == [type |-> "str", val |-> chars]
Bytes(chars) == [type |-> "bytes", val |-> chars]

\* str(content): a str is itself, bytes become their repr b'...'
str(content) ==
    IF content.type = "str" THEN content.val
    ELSE <<"b", "'">> \o content.val \o <<"'">>

\* one call of the transport client
ApiCall(api, to, msg_type, content, msg_id, msg_seq, media) ==
    [api |-> api, to |-> to, msg_type |-> msg_type, content |-> content,
     msg_id |-> msg_id, msg_seq |-> msg_seq, media |-> media]

\* what a send operation did: how it ended ("ok" or the error kind) and the
\* transport calls it issued, the failing one included
Sent(status, calls) == [status |-> status, calls |-> calls]

\* a variant of send that tests for empty content inside the try block
send_check_in_try(callback, content, seq, fail) ==
    LET m == callback.msg_obj
    IN  IF Len(content.val) = 0 THEN Sent("RuntimeError", <<>>)
        ELSE LET call ==
                 CASE m.variant = "Message" ->
                          ApiCall("post_message", m.ctx, None, str(content), m.id, None, None)
                   [] m.variant = "GroupMessage" ->
                          ApiCall("post_group_message", m.ctx, 0, str(content), m.id, seq, None)
                   [] m.variant = "C2CMessage" ->
                          ApiCall("post_c2c_message", m.author, 0, str(content), m.id, seq, None)
             IN  Sent(IF fail = 1 THEN "RuntimeError" ELSE "ok", <<call>>)

\* send(content, seq); fail is the number of the transport call that raises
\* (0: none does)
send(callback, content, seq, fail) ==
    LET m == callback.msg_obj
    IN  IF Len(content.val) = 0 THEN Sent("EmptyContentError", <<>>)
        ELSE IF m.variant \notin Variants THEN Sent("ContentTypeError", <<>>)
        ELSE LET call ==
                 CASE m.variant = "Message" ->
                          ApiCall("post_message", m.ctx, None, str(content), m.id, None, None)
                   [] m.variant = "GroupMessage" ->
                          ApiCall("post_group_message", m.ctx, 0, str(content), m.id, seq, None)
                   [] m.variant = "C2CMessage" ->
                          ApiCall("post_c2c_message", m.author, 0, str(content), m.id, seq, None)
             IN  Sent(IF fail = 1 THEN "RuntimeError" ELSE "ok", <<call>>)

\* upload the file, then post the message that carries it
UploadThenPost(file_api, message_api, to, media_url, media_type, content, msg_id, seq, fail) ==
    LET upload == ApiCall(file_api, to, media_type, None, None, None, media_url)
        post == ApiCall(message_api, to, 7, content, msg_id, seq, "media")
    IN  IF fail = 1 THEN Sent("RuntimeError", <<upload>>)
        ELSE IF fail = 2 THEN Sent("RuntimeError", <<upload, post>>)
        ELSE Sent("ok", <<upload, post>>)

\* a variant of _send_media whose handler re-raises ContentTypeError only
send_media_wraps_all(callback, media_url, media_type, content, seq, fail) ==
    LET m == callback.msg_obj
    IN  CASE m.variant = "Message" -> Sent("RuntimeError", <<>>)
          [] m.variant = "GroupMessage" ->
                 UploadThenPost("post_group_file", "post_group_message", m.ctx,
                                media_url, media_type, str(content), m.id, seq, fail)
          [] m.variant = "C2CMessage" ->
                 UploadThenPost("post_c2c_file", "post_c2c_message", m.author,
                                media_url, media_type, str(content), m.id, seq, fail)
          [] OTHER -> Sent("ContentTypeError", <<>>)

\* _send_media(media_url, media_type, content, seq=seq)
send_media(callback, media_url, media_type, content, seq, fail) ==
    LET m == callback.msg_obj
    IN  CASE m.variant = "Message" ->
                 IF media_type \in {2, 3} THEN Sent("IncompatibilityError", <<>>)
                 \* image=url names nothing: NameError while the arguments of
                 \* post_message are built, wrapped by the handler
                 ELSE Sent("RuntimeError", <<>>)
          [] m.variant = "GroupMessage" ->
                 UploadThenPost("post_group_file", "post_group_message", m.ctx,
                                media_url, media_type, str(content), m.id, seq, fail)
          [] m.variant = "C2CMessage" ->
                 UploadThenPost("post_c2c_file", "post_c2c_message", m.author,
                                media_url, media_type, str(content), m.id, seq, fail)
          [] OTHER -> Sent("ContentTypeError", <<>>)

\* send_image(image_url, content, seq)
send_image(callback, image_url, content, seq, fail) ==
    IF Len(content.val) = 0 THEN Sent("EmptyContentError", <<>>)
    ELSE send_media(callback, image_url, 1, Str(str(content)), seq, fail)

\* send_silk(silk_url, seq)
send_silk(callback, silk_url, seq, fail) ==
    send_media(callback, silk_url, 3, Str(<<>>), seq, fail)

\* send_video(video_url, seq)
send_video(callback, video_url, seq, fail) ==
    send_media(callback, video_url, 2, Str(<<>>), seq, fail)

\* the record of a send operation
SendRecord(op, callback, content, seq, sent) ==
    [op |-> op, cb |-> callback, content |-> content, seq |-> seq,
     status |-> sent.status, calls |-> sent.calls]

NoSend == SendRecord("none", NoCallback, Str(<<>>), 0, Sent("none", <<>>))

SendIdle == last_send = NoSend

Send(callback, content, seq, fail) ==
    last_send' = SendRecord("send", callback, content, seq,
                            send(callback, content, seq, fail))

SendImage(callback, image_url, content, seq, fail) ==
    last_send' = SendRecord("send_image", callback, content, seq,
                            send_image(callback, image_url, content, seq, fail))

SendSilk(callback, silk_url, seq, fail) ==
    last_send' = SendRecord("send_silk", callback, Str(<<>>), seq,
                            send_silk(callback, silk_url, seq, fail))

SendVideo(callback, video_url, seq, fail) ==
    last_send' = SendRecord("send_video", callback, Str(<<>>), seq,
                            send_video(callback, video_url, seq, fail))

\* the Callbacks, contents and sequence numbers the sends are called with
SendCallbacks ==
    UNION { { Callback(Msg("Message", Hello, a, "ch1")),
              Callback(Msg("GroupMessage", Hello, a, "g1")),
              Callback(Msg("C2CMessage", Hello, a, None)) } : a \in {"u1", "u2"} }
Hi == <<"h", "i">>
SendContents == {Str(<<>>), Bytes(<<>>), Str(Hi), Bytes(Hi)}
SendSeqs == {1, 7}
MediaUrl == "https://example/file"

-----------------------------------------------------------------------------
(* Session.fusion *)

\* a Session object with this _bind_function
Session(bind) == [kind |-> "Session", val |-> bind]
\* an argument that is not a Session
NotASession == [kind |-> "other", val |-> <<>>]

\* [func for s in sessions if isinstance(s, Session) for func in s.get_bind]
RECURSIVE Chain(_)
Chain(sessions) ==
    IF sessions = <<>> THEN <<>>
    ELSE LET s == Head(sessions)
         IN  (IF s.kind = "Session" THEN s.val ELSE <<>>) \o Chain(Tail(sessions))

\* a variant of fusion that puts the handlers of the arguments first
fusion_arguments_first(self, sessions) ==
    [ret |-> Chain(sessions) \o self.val, self |-> self, sessions |-> sessions]

\* self.fusion(*sessions): ret is the list returned (list + list builds a new
\* list), self and sessions are the objects as the call leaves them
fusion(self, sessions) ==
    [ret |-> self.val \o Chain(sessions), self |-> self, sessions |-> sessions]

\* the sessions beside the main one; 0 stands for an object of another class
Others == {1, 2}
FusionCalls == { <<1, 2>>, <<2, 1>>, <<1, 0, 2>>, <<2>> }

NoFusion == [args |-> <<0>>, ret |-> <<>>]

FusionIdle ==
    /\ other_bind = [k \in Others |-> <<>>]
    /\ last_fusion = NoFusion

\* what the handlers of the merged sessions are bound to
FusionBinds ==
    { [commands |-> <<Ping>>, prefixes |-> DefaultPrefixes, func |-> "None"],
      [commands |-> <<Pong>>, prefixes |-> DefaultPrefixes, func |-> "True"] }
FusionMessages == {Msg("GroupMessage", c, "u1", "g1") : c \in {Slash \o Ping, Slash \o Pong}}

\* @s.bind(...) on one of the other sessions
BindOther(k, commands, prefixes, limitation, func) ==
    /\ pc = "idle"
    /\ cb = NoCallback
    /\ Len(other_bind[k]) < MaxHandlers
    /\ other_bind' = [other_bind EXCEPT
                         ![k] = Append(@, Handler(commands, prefixes, limitation, func))]
    /\ UNCHANGED <<routerVars, last_fusion>>

\* session.fusion(*args) on the main session; args names the arguments
Fusion(args) ==
    /\ pc = "idle"
    /\ LET arg(i) == IF args[i] = 0 THEN NotASession ELSE Session(other_bind[args[i]])
           r == fusion(Session(bind_function), [i \in 1..Len(args) |-> arg(i)])
           \* the place among the arguments of the other session k
           at(k) == CHOOSE i \in 1..Len(args) : args[i] = k
       IN  /\ last_fusion' = [args |-> args, ret |-> r.ret]
           /\ bind_function' = r.self.val
           /\ other_bind' = [k \in Others |->
                                IF \E i \in 1..Len(args) : args[i] = k
                                THEN r.sessions[at(k)].val ELSE other_bind[k]]
    /\ UNCHANGED <<cb, pc, func_list, target, idx, trace, result, last_init>>

-----------------------------------------------------------------------------
(* Specifications: one per component *)

\* what each component leaves alone
CommandFrame == UNCHANGED <<routerVars, storeVars, sendVars, fusionVars>>
RouterFrame == UNCHANGED <<commandVars, storeVars, sendVars, fusionVars>>
StoreFrame == UNCHANGED <<commandVars, routerVars, sendVars, fusionVars>>
SendFrame == UNCHANGED <<commandVars, routerVars, storeVars, fusionVars>>
FusionFrame == UNCHANGED <<commandVars, storeVars, sendVars>>

InitCommand ==
    /\ cmd_call \in CommandCalls
    /\ cmd_ret = Pending
    /\ RouterIdle
    /\ StoreIdle
    /\ SendIdle
    /\ FusionIdle

NextCommand ==
    \/ Command /\ CommandFrame
    \/ NextCommandCall /\ CommandFrame

SpecCommand == InitCommand /\ [][NextCommand]_vars

InitRouter ==
    /\ RouterIdle
    /\ CommandIdle
    /\ StoreIdle
    /\ SendIdle
    /\ FusionIdle

NextRouter ==
    \/ \E a \in BindArgs, l \in BindLimitations, f \in UserFuncs :
           Bind(a.commands, a.prefixes, l, f) /\ RouterFrame
    \/ \E m \in RouterMessages : NewCallback(m) /\ RouterFrame
    \/ \E m \in OtherMessages : NewCallback(m) /\ RouterFrame
    \/ \E s \in SessionArgs, c \in {NoCallback, NotACallback} :
           ReduceEnter(s, c) /\ RouterFrame
    \/ ReduceStep /\ RouterFrame
    \/ ReduceExhausted /\ RouterFrame
    \/ Discard /\ RouterFrame

SpecRouter == InitRouter /\ [][NextRouter]_vars

InitStore ==
    /\ StoreIdle
    /\ CommandIdle
    /\ RouterIdle
    /\ SendIdle
    /\ FusionIdle

NextStore ==
    \/ \E c \in StoreCallbacks, f \in {"none", "select"} : GetUserinfo(c, f) /\ StoreFrame
    \/ \E c \in StoreCallbacks, f \in {"none", "select", "insert", "commit"} :
           InsertUserinfo(c, f) /\ StoreFrame
    \/ \E c \in StoreCallbacks, f \in {"none", "select"} : GetGroupUseUser(c, f) /\ StoreFrame
    \/ \E n \in 0..4 : ClearTable(n) /\ StoreFrame

SpecStore == InitStore /\ [][NextStore]_vars

InitSend ==
    /\ SendIdle
    /\ CommandIdle
    /\ RouterIdle
    /\ StoreIdle
    /\ FusionIdle

NextSend ==
    \/ \E c \in SendCallbacks, t \in SendContents, q \in SendSeqs, f \in 0..1 :
           Send(c, t, q, f) /\ SendFrame
    \/ \E c \in SendCallbacks, t \in SendContents, q \in SendSeqs, f \in 0..2 :
           SendImage(c, MediaUrl, t, q, f) /\ SendFrame
    \/ \E c \in SendCallbacks, q \in SendSeqs, f \in 0..2 :
           SendSilk(c, MediaUrl, q, f) /\ SendFrame
    \/ \E c \in SendCallbacks, q \in SendSeqs, f \in 0..2 :
           SendVideo(c, MediaUrl, q, f) /\ SendFrame

SpecSend == InitSend /\ [][NextSend]_vars

InitFusion ==
    /\ FusionIdle
    /\ RouterIdle
    /\ CommandIdle
    /\ StoreIdle
    /\ SendIdle

\* the sessions are filled when the modules are imported, before any fusion
NextFusion ==
    \/ \E a \in FusionBinds :
           /\ last_fusion = NoFusion
           /\ Bind(a.commands, a.prefixes, <<>>, a.func)
           /\ FusionFrame /\ UNCHANGED fusionVars
    \/ \E k \in Others, a \in FusionBinds :
           /\ last_fusion = NoFusion
           /\ BindOther(k, a.commands, a.prefixes, <<>>, a.func)
           /\ FusionFrame
    \/ \E m \in FusionMessages : NewCallback(m) /\ FusionFrame /\ UNCHANGED fusionVars
    \/ \E args \in FusionCalls : Fusion(args) /\ FusionFrame
    \/ /\ last_fusion # NoFusion
       /\ ReduceEnter([kind |-> "list", val |-> last_fusion.ret], NoCallback)
       /\ FusionFrame /\ UNCHANGED fusionVars
    \/ ReduceStep /\ FusionFrame /\ UNCHANGED fusionVars
    \/ ReduceExhausted /\ FusionFrame /\ UNCHANGED fusionVars
    \/ Discard /\ FusionFrame /\ UNCHANGED fusionVars

SpecFusion == InitFusion /\ [][NextFusion]_vars

-----------------------------------------------------------------------------
(* Properties of Callback.command *)

\* t is s without its leading and trailing whitespace, stated without strip
IsTrimOf(t, s) ==
    \E i \in 0..Len(s) : \E j \in i..Len(s) :
        /\ t = SubSeq(s, i + 1, j)
        /\ \A k \in 1..i : IsSpace(s[k])
        /\ \A k \in (j + 1)..Len(s) : IsSpace(s[k])
        /\ t # <<>> => ~IsSpace(t[1]) /\ ~IsSpace(t[Len(t)])

Substrings(s) == {SubSeq(s, i + 1, j) : i \in 0..Len(s), j \in 0..Len(s)}
Trimmed(s) == CHOOSE t \in Substrings(s) : IsTrimOf(t, s)

CommandReturned == cmd_ret # Pending
EchoCall ==
    /\ cmd_call.content = EchoHelloWorld
    /\ cmd_call.prefix = Slash
    /\ cmd_call.sep_params

\* the two parts of the statement that do not depend on the example's words:
\* splitting disabled, or no prefix match on the trimmed content, returns the
\* trimmed content as a string
CommandKeepsUnsplit ==
    /\ ~cmd_call.sep_params => cmd_ret = PyStr(Trimmed(cmd_call.content))
    /\ ~startswith(Trimmed(cmd_call.content), cmd_call.prefix)
           => cmd_ret = PyStr(Trimmed(cmd_call.content))

\* C5 (as stated): command("/", sep_params=True) on "/echo hello world" returns
\* ["hello", "world"]; with sep_params=False, or when the content does not
\* start with the prefix, it returns the trimmed content string.
C5_AsStated ==
    CommandReturned =>
        /\ EchoCall => cmd_ret = PyList(<<Hello, World>>)
        /\ CommandKeepsUnsplit

\* C5 (amended): command("/", sep_params=True) on "/echo hello world" returns
\* ["echo", "hello", "world"], the command word included; with
\* sep_params=False, or when the trimmed content does not start with the
\* prefix, it returns the trimmed content string.
C5_CommandKeepsCommandWord ==
    CommandReturned =>
        /\ EchoCall => cmd_ret = PyList(<<Echo, Hello, World>>)
        /\ CommandKeepsUnsplit

\* the example call has returned
C5_Witness == CommandReturned /\ EchoCall

-----------------------------------------------------------------------------
(* Properties of the router *)

\* the attempts of the running reduce that called the user function
Invoking == {k \in 1..Len(trace) : trace[k].calls # <<>>}

\* C1: one call of reduce invokes the user function of at most one handler,
\* whatever the user functions return.
C1_AtMostOneHandlerFires ==
    /\ Cardinality(Invoking) <= 1
    /\ \A k \in Invoking : Len(trace[k].calls) = 1

\* the callable entries of func_list before position n
CallableBefore(n) == {j \in 1..Len(func_list) : j < n /\ func_list[j].callable}

Falsy(k) == trace[k].outcome \in {"False", "None"}

PingThenPong ==
    /\ Len(func_list) = 2
    /\ func_list[1].callable /\ func_list[1].commands = <<Ping>>
    /\ func_list[2].callable /\ func_list[2].commands = <<Pong>>
    /\ \A j \in 1..2 : func_list[j].limitation = <<>>
    /\ target.kind = "Callback"
    /\ target.msg_obj.content = Slash \o Pong \o <<" ", "x">>

\* C2: reduce attempts the handlers in list order, each only after every
\* earlier one returned a falsy outcome; the first truthy outcome ends the
\* scan with True and no later handler is attempted; False is returned only
\* when every handler was attempted and none was truthy; with "ping" then
\* "pong" bound and content matching only "pong", only the second user
\* function is invoked.
C2_FirstMatchWins ==
    /\ \A k \in 1..Len(trace) :
           /\ func_list[trace[k].h].callable
           /\ \A j \in CallableBefore(trace[k].h) :
                  \E m \in 1..(k - 1) : trace[m].h = j /\ Falsy(m)
           /\ k < Len(trace) => Falsy(k)
    /\ \A k \in 1..Len(trace) : \A m \in 1..Len(trace) : k < m => trace[k].h < trace[m].h
    /\ (trace # <<>> /\ trace[Len(trace)].outcome = "True")
           => pc = "done" /\ result = "True"
    /\ result = "True" => trace # <<>> /\ trace[Len(trace)].outcome = "True"
    /\ result = "False" =>
           /\ pc = "done"
           /\ \A j \in CallableBefore(Len(func_list) + 1) :
                  \E m \in 1..Len(trace) : trace[m].h = j /\ Falsy(m)
    /\ (pc = "done" /\ result \in {"True", "False"} /\ PingThenPong)
           => /\ Len(trace) = 2
              /\ trace[1].calls = <<>>
              /\ Len(trace[2].calls) = 1
              /\ result = IF func_list[2].func = "True" THEN "True" ELSE "False"

\* reduce has returned True from the second of the "ping", "pong" handlers
C2_Witness ==
    /\ pc = "done" /\ result = "True" /\ PingThenPong
    /\ Len(trace) = 2

\* the words of s, collected left to right
RECURSIVE WordsAcc(_, _, _)
WordsAcc(s, cur, acc) ==
    LET flushed == IF cur = <<>> THEN acc ELSE Append(acc, cur)
    IN  IF s = <<>> THEN flushed
        ELSE IF Head(s) = " " THEN WordsAcc(Tail(s), <<>>, flushed)
        ELSE WordsAcc(Tail(s), Append(cur, Head(s)), acc)
Words(s) == WordsAcc(s, <<>>, <<>>)

\* content (already trimmed) starts with the i-th prefix + j-th command of h
Match(content, h, i, j) == startswith(content, h.prefixes[i] \o h.commands[j])

\* pair (i, j) comes before pair (i2, j2): prefixes outer, commands inner
PairBefore(i, j, i2, j2) == i < i2 \/ (i = i2 /\ j < j2)

FirstMatch(content, h, i, j) ==
    /\ Match(content, h, i, j)
    /\ \A i2 \in 1..Len(h.prefixes), j2 \in 1..Len(h.commands) :
           PairBefore(i2, j2, i, j) => ~Match(content, h, i2, j2)

\* the argument words that follow the i-th prefix + j-th command
ArgWords(content, h, i, j) ==
    Words(SliceFrom(content, Len(h.prefixes[i]) + Len(h.commands[j])))

\* the trimmed content of the message handed to the handlers
TargetContent == Trimmed(target.msg_obj.content)

\* attempt k ran on a Callback whose audience the handler does not exclude
Unrestricted(k) ==
    /\ target.kind = "Callback"
    /\ \A n \in 1..Len(func_list[trace[k].h].limitation) :
           func_list[trace[k].h].limitation[n] # target.msg_type

\* what an unrestricted attempt does, given how params is built from the
\* argument words
WrapperScans(Params(_)) ==
    trace # <<>> =>
        LET content == TargetContent
        IN  \A k \in 1..Len(trace) : Unrestricted(k) =>
                LET h == func_list[trace[k].h]
                    pairs == {ij \in (1..Len(h.prefixes)) \X (1..Len(h.commands)) :
                                  FirstMatch(content, h, ij[1], ij[2])}
                IN  /\ Cardinality(pairs) <= 1
                    /\ \A ij \in pairs :
                           /\ trace[k].calls = <<Params(ArgWords(content, h, ij[1], ij[2]))>>
                           /\ trace[k].outcome = h.func
                    /\ pairs = {} => trace[k].outcome = "False" /\ trace[k].calls = <<>>

ParamsAlwaysList(words) == PyList(words)
ParamsOrEmptyString(words) == IF words = <<>> THEN PyStr(<<>>) ELSE PyList(words)

\* C3 (as stated): an unrestricted handler entry scans prefix x command pairs,
\* prefixes outer; at the first matching pair it calls the user function once
\* with params = the parsed argument list (a list also when there are no
\* arguments) and returns its outcome; with no matching pair it returns False
\* without calling the user function.
C3_AsStated == WrapperScans(ParamsAlwaysList)

\* C3 (amended): as above, except that params is the parsed argument list only
\* when it is non-empty, and the empty string when there are no arguments.
C3_WrapperParams == WrapperScans(ParamsOrEmptyString)

\* an unrestricted attempt called the user function with no arguments, and an
\* earlier pair of the same handler did not match
C3_Witness ==
    \E k \in 1..Len(trace) :
        /\ Unrestricted(k)
        /\ trace[k].calls = <<PyStr(<<>>)>>
        /\ ~Match(TargetContent, func_list[trace[k].h], 1, 1)

\* attempt k ran on a Callback whose audience is in the handler's limitation
Restricted(k) ==
    /\ target.kind = "Callback"
    /\ \E n \in 1..Len(func_list[trace[k].h].limitation) :
           func_list[trace[k].h].limitation[n] = target.msg_type

\* C4: a handler entry whose limitation holds the Callback's audience returns
\* False and never calls its user function, whatever the content.
C4_LimitationBlocks ==
    \A k \in 1..Len(trace) : Restricted(k) =>
        trace[k].outcome = "False" /\ trace[k].calls = <<>>

\* a restricted attempt on content that matches one of the handler's pairs
C4_Witness ==
    \E k \in 1..Len(trace) :
        /\ Restricted(k)
        /\ \E i \in 1..Len(func_list[trace[k].h].prefixes) :
               \E j \in 1..Len(func_list[trace[k].h].commands) :
                   Match(TargetContent, func_list[trace[k].h], i, j)

-----------------------------------------------------------------------------
(* Properties of the user store *)

\* insert_userinfo was called twice in a row with the same Callback, the
\* first time with no row for its open-id, and the driver did not fail
TwoInserts ==
    /\ prev_call.op = "insert_userinfo"
    /\ last_call.op = "insert_userinfo"
    /\ ~prev_call.found
    /\ ~prev_call.driver_raised /\ ~last_call.driver_raised

BothReturned == prev_call.ret.status = "ok" /\ last_call.ret.status = "ok"

\* C6 (as stated): from a store with no row for the open-id, two consecutive
\* insert_userinfo calls with the same Callback return snapshots identical in
\* every field, and exactly one INSERT is executed across the two calls.
C6_AsStated ==
    TwoInserts =>
        /\ BothReturned
        /\ prev_call.ret.users = last_call.ret.users
        /\ prev_call.inserts + last_call.inserts = 1

\* C6 (amended): with a channel or group Callback the two snapshots agree on
\* openid, message_number, channel_id and group_id but not on userid (0 in the
\* first, the stored row id in the second), and exactly one INSERT is
\* executed; with a direct Callback both calls raise RuntimeError and no
\* INSERT is executed.
C6_SnapshotsAgreeButForUserid ==
    TwoInserts =>
        IF last_call.cb.msg_type \in {"channel", "group"}
        THEN /\ BothReturned
             /\ Len(prev_call.ret.users) = 1 /\ Len(last_call.ret.users) = 1
             /\ LET first == prev_call.ret.users[1]
                    second == last_call.ret.users[1]
                IN  /\ first.openid = second.openid
                    /\ first.message_number = second.message_number
                    /\ first.channel_id = second.channel_id
                    /\ first.group_id = second.group_id
                    /\ first.userid = 0
                    /\ second.userid >= 1
             /\ prev_call.inserts + last_call.inserts = 1
        ELSE /\ prev_call.ret.status = "RuntimeError"
             /\ last_call.ret.status = "RuntimeError"
             /\ prev_call.inserts + last_call.inserts = 0

\* the second of two insert_userinfo calls returned the row the first stored
C6_Witness ==
    /\ TwoInserts
    /\ BothReturned
    /\ last_call.found
    /\ last_call.cb.msg_type = "group"

\* insert_userinfo ran with no row for the caller's open-id and no driver failure
FreshInsert ==
    /\ last_call.op = "insert_userinfo"
    /\ ~last_call.found
    /\ ~last_call.driver_raised

\* C7: for each audience kind, insert_userinfo with no row for the caller's
\* open-id inserts exactly one row with message_number 1 into that audience's
\* table, commits, and returns a snapshot with that open-id and
\* message_number 1; get_userinfo then returns a snapshot.
C7_InsertsOneRow ==
    FreshInsert =>
        LET callback == last_call.cb
            rows == Select(table[callback.msg_type], "openid", user_openid(callback))
        IN  /\ last_call.ret.status = "ok"
            /\ last_call.inserts = 1
            /\ Len(rows) = 1 /\ rows[1].message_number = 1
            /\ ~pending
            /\ Len(last_call.ret.users) = 1
            /\ last_call.ret.users[1].openid = user_openid(callback)
            /\ last_call.ret.users[1].message_number = 1
            /\ get_userinfo(callback, "none").type = "BaseUser"

\* C8: a failure raised by the driver during any store operation reaches the
\* caller as RuntimeError.
C8_DriverFailureIsRuntimeError ==
    last_call.driver_raised => last_call.ret.status = "RuntimeError"

-----------------------------------------------------------------------------
(* Properties of the send operations *)

EmptySend == last_send.op = "send" /\ Len(last_send.content.val) = 0

\* C9: for every audience kind, send with empty content fails with
\* EmptyContentError (not RuntimeError) and makes no transport call.
C9_EmptySendFailsBeforeTransport ==
    EmptySend => last_send.status = "EmptyContentError" /\ last_send.calls = <<>>

\* an empty send on each kind of audience has been seen; this one on a group
C9_Witness == EmptySend /\ last_send.cb.msg_type = "group"

ChannelAudioOrVideo ==
    /\ last_send.op \in {"send_silk", "send_video"}
    /\ last_send.cb.msg_type = "channel"

\* C10: on a channel Callback, send_silk and send_video fail with
\* IncompatibilityError, not wrapped as RuntimeError, with no transport call.
C10_ChannelAudioVideoIncompatible ==
    ChannelAudioOrVideo =>
        last_send.status = "IncompatibilityError" /\ last_send.calls = <<>>

\* send_video was called on a channel Callback
C10_Witness == ChannelAudioOrVideo /\ last_send.op = "send_video"

\* the transport calls an image send makes for each audience kind
ImageApis(msg_type) ==
    CASE msg_type = "channel" -> <<"post_message">>
      [] msg_type = "group" -> <<"post_group_file", "post_group_message">>
      [] msg_type = "c2c" -> <<"post_c2c_file", "post_c2c_message">>

\* the names of the transport calls the last send operation issued, in order
ApisCalled == [i \in 1..Len(last_send.calls) |-> last_send.calls[i].api]

\* the transport raised only if it was called and the operation ended in the
\* wrapped error
TransportRaised == last_send.calls # <<>> /\ last_send.status = "RuntimeError"

\* C11: send_image reaches the transport for every audience kind, the caption
\* omitted or supplied: its first transport call is the one of the audience
\* (post_message carrying the image, the group file upload, the direct file
\* upload), and when the transport does not fail it issues the whole sequence
\* of the audience and raises no error.
C11_SendImageReachesTransport ==
    last_send.op = "send_image" =>
        /\ last_send.calls # <<>>
        /\ last_send.calls[1].api = ImageApis(last_send.cb.msg_type)[1]
        /\ last_send.cb.msg_type = "channel" => last_send.calls[1].media = MediaUrl
        /\ ~TransportRaised =>
               /\ last_send.status = "ok"
               /\ ApisCalled = ImageApis(last_send.cb.msg_type)

-----------------------------------------------------------------------------
(* Properties of Callback construction *)

\* the audience tag that belongs to each message variant
VariantTags ==
    {<<"Message", "channel">>, <<"GroupMessage", "group">>, <<"C2CMessage", "c2c">>}

\* the tag of this Callback is the one of the variant it wraps
TagConsistent(callback) ==
    <<callback.msg_obj.variant, callback.msg_type>> \in VariantTags

\* C12: constructing a Callback from a Message, GroupMessage or C2CMessage
\* succeeds and yields the tag channel, group or c2c; for as long as the
\* Callback exists (while reduce hands it to the handlers included) its tag
\* is the one of the variant it wraps; constructing from anything else fails
\* with ContentTypeError and no Callback comes to exist.
C12_TagFollowsVariant ==
    /\ last_init.variant \in Variants => last_init.status = "ok"
    /\ last_init.variant \in OtherVariants =>
           last_init.status = "ContentTypeError" /\ cb = NoCallback
    /\ cb.kind = "Callback" =>
           /\ cb.msg_obj.variant = last_init.variant
           /\ TagConsistent(cb)
    /\ target.kind = "Callback" => TagConsistent(target)

\* a Callback built from a GroupMessage has been through a whole reduce in
\* which a handler ran
C12_Witness ==
    /\ last_init = [variant |-> "GroupMessage", status |-> "ok"]
    /\ cb.msg_type = "group"
    /\ pc = "done"
    /\ trace # <<>>

\* a construction from an object of another class has failed
C12_OtherVariantRejected == last_init.status = "ContentTypeError"

-----------------------------------------------------------------------------
(* Properties of Session.fusion *)

Fused == last_fusion # NoFusion

\* the handler list of the i-th argument of the last fusion; an argument
\* that is not a Session has none
ArgBind(i) ==
    IF last_fusion.args[i] = 0 THEN <<>> ELSE other_bind[last_fusion.args[i]]

\* how many handlers the fused list holds before those of the i-th argument
RECURSIVE Before(_)
Before(i) == IF i = 1 THEN Len(bind_function) ELSE Before(i - 1) + Len(ArgBind(i - 1))

\* reduce is running, or has run, over the list the last fusion returned
ReducingFused == Fused /\ pc # "idle" /\ func_list = last_fusion.ret

\* the attempts of this reduce on handlers of the other sessions
OtherAttempts == {j \in 1..Len(trace) : trace[j].h > Len(bind_function)}

\* C13: after self.fusion(s1, ..., sn), with the handler lists as the call
\* left them (no bind follows a fusion, so they are also the lists before
\* the call): the returned list holds self's handlers in registration order,
\* then those of each argument session in argument order, each in its own
\* registration order, and nothing else; and a reduce over the returned list
\* attempts a handler of another session only after every handler of self,
\* in order, was attempted and came back falsy.
C13_FusionKeepsOrder ==
    /\ Fused =>
           LET n == Len(last_fusion.args)
           IN  /\ Len(last_fusion.ret) = Before(n) + Len(ArgBind(n))
               /\ \A i \in 1..Len(bind_function) : last_fusion.ret[i] = bind_function[i]
               /\ \A a \in 1..n : \A j \in 1..Len(ArgBind(a)) :
                      last_fusion.ret[Before(a) + j] = ArgBind(a)[j]
    /\ ReducingFused =>
           \A j \in OtherAttempts :
               /\ j > Len(bind_function)
               /\ \A i \in 1..Len(bind_function) : trace[i].h = i /\ Falsy(i)

\* s2 and s1, fused in that order behind a main session with two handlers,
\* each with handlers of its own and s2's differing from s1's; the reduce
\* over the fused list went past self's handlers into those of s2
C13_Witness ==
    /\ ReducingFused
    /\ last_fusion.args = <<2, 1>>
    /\ Len(bind_function) = 2
    /\ Len(other_bind[1]) = 2
    /\ other_bind[2] # <<>>
    /\ other_bind[2][1] # other_bind[1][1]
    /\ OtherAttempts # {}

====
